---- MODULE Spec2Model ----
(***************************************************************************)
(* Rotary-knob input pipeline of src/src/main.rs.                          *)
(*                                                                         *)
(* Three contexts:                                                         *)
(*   - the GPIO interrupt handlers (handle_interrupt), one per pin, which  *)
(*     lock the global event loop and post the pin's identity;             *)
(*   - the background task of the user event loop, which takes the posted  *)
(*     messages one by one and runs the subscribed closure on each;        *)
(*   - the main thread, which registers the closure and then drains the    *)
(*     mpsc channel of RotaryKnobEvent values.                             *)
(*                                                                         *)
(* Pin levels are kept as the value is_low() returns.  Time is in          *)
(* milliseconds.  The encoder object is rotary_encoder_hal::Rotary, whose  *)
(* state is the two bits (b, a) read at the previous update, 0 after new.  *)
(***************************************************************************)
EXTENDS Integers, Sequences, FiniteSets, TLC

\* ---- bounds of the model
MaxTime == 200
MaxQueue == 2
MaxTimeLong == 400

\* ---- program constants
DebounceMs == 100

PinId == {"Button", "A", "B"}
RotaryKnobEvent ==
    {"TurnedClockwise", "TurnedCounterClockwise", "ButtonPressed", "ButtonReleased"}
Direction == {"Clockwise", "CounterClockwise", "None"}
TickSteps == {50, 100}

VARIABLES
    low,            \* low[p]: what is_low() returns for pin p now
    clock,          \* systime.now(), in ms
    mainPc,         \* "start" | "subscribing" | "loop"
    lockHolder,     \* owner of the event_loop() mutex: "free" | "main"
    isrBlocked,     \* "none", or the pin whose handle_interrupt waits for the mutex
    fatal,          \* a panic (unwrap of a failed post) ended the program
    subscribed,     \* the closure is registered with the event loop
    queue,          \* messages posted to the event loop, oldest first
    running,        \* messages whose closure invocation is in progress
    state,          \* enc.state of the Rotary
    button_pressed, \* captured button_pressed
    prev_time,      \* captured prev_time
    chan,           \* the mpsc channel tx -> rx
    sent,           \* history: every event given to tx.send, in order
    received,       \* history: every event rx.recv returned, in order
    sampled,        \* history: levels read by the latest enc.update(), or "none"
    last,           \* history: what the latest closure invocation did
    hist            \* history: hist.pushTime is the time read by the latest
                    \* invocation that sent an event (-1: none)

vars == <<low, clock, mainPc, lockHolder, isrBlocked, fatal, subscribed, queue,
          running, state, button_pressed, prev_time, chan, sent, received,
          sampled, last, hist>>

NoHistory == [pushTime |-> -1]

NoNotification ==
    [pin |-> "none", accepted |-> FALSE, updates |-> 0, dir |-> "None",
     out |-> <<>>]

\* ---- rotary_encoder_hal::Rotary::update, as called by the closure
RotaryTableDoubleStep(s) ==
    IF s \in {1, 7, 8, 14, 12} THEN "Clockwise"
    ELSE IF s \in {2, 4, 11, 13, 3} THEN "CounterClockwise"
    ELSE "None"

RotaryTable(s) ==
    IF s \in {1, 7, 8, 14} THEN "Clockwise"
    ELSE IF s \in {2, 4, 11, 13} THEN "CounterClockwise"
    ELSE "None"

RotaryUpdate(st, a, b) ==
    LET s == (st % 4) + (IF a THEN 4 ELSE 0) + (IF b THEN 8 ELSE 0)
    IN  [state |-> s \div 4, dir |-> RotaryTable(s)]

\* ---- the closure given to event_loop().subscribe
DebouncedNever(new_time, prev) == FALSE

DebouncedInclusive(new_time, prev) == new_time - prev <= DebounceMs

Debounced(new_time, prev) == new_time - prev < DebounceMs

DirectionEventSwapped(d) ==
    IF d = "Clockwise" THEN <<"TurnedCounterClockwise">>
    ELSE IF d = "CounterClockwise" THEN <<"TurnedClockwise">>
    ELSE <<>>

DirectionEvent(d) ==
    IF d = "Clockwise" THEN <<"TurnedClockwise">>
    ELSE IF d = "CounterClockwise" THEN <<"TurnedCounterClockwise">>
    ELSE <<>>

DiscardNoUpdate(pin, new_time, prev, st, bp, lv) ==
    [prev_time |-> prev, state |-> st, button_pressed |-> bp,
     out |-> <<>>, accepted |-> FALSE, updates |-> 0, dir |-> "None"]

DiscardKeepsState(pin, new_time, prev, st, bp, lv) ==
    LET r == RotaryUpdate(st, lv["A"], lv["B"])
    IN  [prev_time |-> prev, state |-> st, button_pressed |-> bp,
         out |-> <<>>, accepted |-> FALSE, updates |-> 1, dir |-> r.dir]

DiscardTracksButton(pin, new_time, prev, st, bp, lv) ==
    LET r == RotaryUpdate(st, lv["A"], lv["B"])
    IN  [prev_time |-> prev, state |-> r.state,
         button_pressed |-> IF pin = "Button" THEN lv["Button"] ELSE bp,
         out |-> <<>>, accepted |-> FALSE, updates |-> 1, dir |-> r.dir]

\* the early return of a notification inside the debounce window
Discard(pin, new_time, prev, st, bp, lv) ==
    LET r == RotaryUpdate(st, lv["A"], lv["B"])
    IN  [prev_time |-> prev, state |-> r.state, button_pressed |-> bp,
         out |-> <<>>, accepted |-> FALSE, updates |-> 1, dir |-> r.dir]

\* the PinId::A | PinId::B arm
RotaryArm(pin, new_time, prev, st, bp, lv) ==
    LET r == RotaryUpdate(st, lv["A"], lv["B"])
    IN  [prev_time |-> new_time, state |-> r.state, button_pressed |-> bp,
         out |-> DirectionEvent(r.dir), accepted |-> TRUE, updates |-> 1,
         dir |-> r.dir]

ButtonArmInverted(pin, new_time, prev, st, bp, lv) ==
    LET c == lv["Button"]
    IN  [prev_time |-> new_time, state |-> st,
         button_pressed |-> IF bp # c THEN c ELSE bp,
         out |-> IF bp # c
                 THEN (IF c THEN <<"ButtonReleased">> ELSE <<"ButtonPressed">>)
                 ELSE <<>>,
         accepted |-> TRUE, updates |-> 0, dir |-> "None"]

ButtonArmNoStore(pin, new_time, prev, st, bp, lv) ==
    LET c == lv["Button"]
    IN  [prev_time |-> new_time, state |-> st, button_pressed |-> bp,
         out |-> IF bp # c
                 THEN (IF c THEN <<"ButtonPressed">> ELSE <<"ButtonReleased">>)
                 ELSE <<>>,
         accepted |-> TRUE, updates |-> 0, dir |-> "None"]

ButtonArmAlwaysEmits(pin, new_time, prev, st, bp, lv) ==
    LET c == lv["Button"]
    IN  [prev_time |-> new_time, state |-> st, button_pressed |-> c,
         out |-> IF c THEN <<"ButtonPressed">> ELSE <<"ButtonReleased">>,
         accepted |-> TRUE, updates |-> 0, dir |-> "None"]

\* the PinId::Button arm
ButtonArm(pin, new_time, prev, st, bp, lv) ==
    LET c == lv["Button"]
    IN  [prev_time |-> new_time, state |-> st,
         button_pressed |-> IF bp # c THEN c ELSE bp,
         out |-> IF bp # c
                 THEN (IF c THEN <<"ButtonPressed">> ELSE <<"ButtonReleased">>)
                 ELSE <<>>,
         accepted |-> TRUE, updates |-> 0, dir |-> "None"]

Closure(pin, new_time, prev, st, bp, lv) ==
    IF Debounced(new_time, prev)
    THEN Discard(pin, new_time, prev, st, bp, lv)
    ELSE IF pin \in {"A", "B"}
         THEN RotaryArm(pin, new_time, prev, st, bp, lv)
         ELSE ButtonArm(pin, new_time, prev, st, bp, lv)

\* a panic aborts the program: nothing runs afterwards
HaltedNever == FALSE

Halted == fatal

TypeOK ==
    /\ low \in [PinId -> BOOLEAN]
    /\ clock \in Nat
    /\ mainPc \in {"start", "subscribing", "loop"}
    /\ lockHolder \in {"free", "main"}
    /\ isrBlocked \in PinId \cup {"none"}
    /\ fatal \in BOOLEAN
    /\ subscribed \in BOOLEAN
    /\ queue \in Seq(PinId)
    /\ running \in Seq(PinId)
    /\ state \in 0..3
    /\ button_pressed \in BOOLEAN
    /\ prev_time \in Nat
    /\ chan \in Seq(RotaryKnobEvent)
    /\ sent \in Seq(RotaryKnobEvent)
    /\ received \in Seq(RotaryKnobEvent)

InitSampled ==
    /\ low \in [PinId -> BOOLEAN]
    /\ clock = 0
    /\ mainPc = "start"
    /\ lockHolder = "free"
    /\ isrBlocked = "none"
    /\ fatal = FALSE
    /\ subscribed = FALSE
    /\ queue = <<>>
    /\ running = <<>>
    /\ state = (IF low["A"] THEN 1 ELSE 0) + (IF low["B"] THEN 2 ELSE 0)
    /\ button_pressed = FALSE
    /\ prev_time = 0
    /\ chan = <<>>
    /\ sent = <<>>
    /\ received = <<>>
    /\ sampled = "none"
    /\ last = NoNotification
    /\ hist = NoHistory

\* main up to the creation of the channel: the three pin handlers are
\* subscribed, enc is new, button_pressed is false, prev_time is now.
Init ==
    /\ low \in [PinId -> BOOLEAN]
    /\ clock = 0
    /\ mainPc = "start"
    /\ lockHolder = "free"
    /\ isrBlocked = "none"
    /\ fatal = FALSE
    /\ subscribed = FALSE
    /\ queue = <<>>
    /\ running = <<>>
    /\ state = 0
    /\ button_pressed = FALSE
    /\ prev_time = 0
    /\ chan = <<>>
    /\ sent = <<>>
    /\ received = <<>>
    /\ sampled = "none"
    /\ last = NoNotification
    /\ hist = NoHistory

\* the monotonic clock advances
Tick ==
    /\ ~Halted
    /\ \E d \in TickSteps :
        /\ clock + d <= MaxTime
        /\ clock' = clock + d
    /\ UNCHANGED <<low, mainPc, lockHolder, isrBlocked, fatal, subscribed, queue,
                   running, state, button_pressed, prev_time, chan, sent,
                   received, sampled, last,
                   hist>>

handle_interruptDecodes(p) ==
    /\ ~Halted
    /\ isrBlocked = "none"
    /\ low' = [low EXCEPT ![p] = ~low[p]]
    /\ state' = RotaryUpdate(state, low'["A"], low'["B"]).state
    /\ IF lockHolder # "free"
       THEN /\ isrBlocked' = p
            /\ UNCHANGED <<queue, fatal>>
       ELSE IF Len(queue) >= MaxQueue
       THEN /\ fatal' \in BOOLEAN
            /\ UNCHANGED <<queue, isrBlocked>>
       ELSE /\ queue' = Append(queue, p)
            /\ UNCHANGED <<isrBlocked, fatal>>
    /\ UNCHANGED <<clock, mainPc, lockHolder, subscribed, running,
                   button_pressed, prev_time, chan, sent, received, sampled, last,
                   hist>>

\* An edge on pin p (AnyEdge) runs handle_interrupt(p) in interrupt context:
\* lock the event loop, post the message, unwrap the result.
handle_interrupt(p) ==
    /\ ~Halted
    /\ isrBlocked = "none"
    /\ low' = [low EXCEPT ![p] = ~low[p]]
    /\ IF lockHolder # "free"
       THEN \* lock() waits for main, which the interrupt has pre-empted
            /\ isrBlocked' = p
            /\ UNCHANGED <<queue, fatal>>
       ELSE IF Len(queue) >= MaxQueue
       THEN \* the queue is full: post gives either Err, and unwrap panics,
            \* or Ok(false), which the handler ignores
            /\ fatal' \in BOOLEAN
            /\ UNCHANGED <<queue, isrBlocked>>
       ELSE /\ queue' = Append(queue, p)
            /\ UNCHANGED <<isrBlocked, fatal>>
    /\ UNCHANGED <<clock, mainPc, lockHolder, subscribed, running, state,
                   button_pressed, prev_time, chan, sent, received, sampled, last,
                   hist>>

\* main: event_loop().lock().unwrap()
MainLock ==
    /\ ~Halted
    /\ isrBlocked = "none"
    /\ mainPc = "start"
    /\ lockHolder = "free"
    /\ lockHolder' = "main"
    /\ mainPc' = "subscribing"
    /\ UNCHANGED <<low, clock, isrBlocked, fatal, subscribed, queue, running,
                   state, button_pressed, prev_time, chan, sent, received,
                   sampled, last,
                   hist>>

\* main: .subscribe(closure).unwrap(); the guard is dropped at the end of
\* the statement
MainSubscribe ==
    /\ ~Halted
    /\ isrBlocked = "none"
    /\ mainPc = "subscribing"
    /\ subscribed' = TRUE
    /\ lockHolder' = "free"
    /\ mainPc' = "loop"
    /\ UNCHANGED <<low, clock, isrBlocked, fatal, queue, running, state,
                   button_pressed, prev_time, chan, sent, received, sampled, last,
                   hist>>

\* the event loop task takes the next message; with no handler registered
\* for it the message is discarded
TaskReentrant == TRUE

TaskIdle == running = <<>>

\* the position in the queue of the message the task takes: the oldest
TakeNewest(q) == Len(q)

TakeIndex(q) == 1

Without(q, i) == SubSeq(q, 1, i - 1) \o SubSeq(q, i + 1, Len(q))

EventLoopTake ==
    /\ ~Halted
    /\ queue # <<>>
    /\ TaskIdle
    /\ LET i == TakeIndex(queue)
       IN  /\ queue' = Without(queue, i)
           /\ running' = IF subscribed THEN Append(running, queue[i]) ELSE running
    /\ UNCHANGED <<low, clock, mainPc, lockHolder, isrBlocked, fatal, subscribed,
                   state, button_pressed, prev_time, chan, sent, received,
                   sampled, last, hist>>

\* the event loop task runs the closure on the message it took
EventLoopRun ==
    /\ ~Halted
    /\ running # <<>>
    /\ LET pin == Head(running)
           r == Closure(pin, clock, prev_time, state, button_pressed, low)
       IN  /\ running' = Tail(running)
           /\ prev_time' = r.prev_time
           /\ state' = r.state
           /\ button_pressed' = r.button_pressed
           /\ chan' = chan \o r.out
           /\ sent' = sent \o r.out
           /\ sampled' = IF r.updates > 0 THEN <<low["A"], low["B"]>> ELSE sampled
           /\ last' = [pin |-> pin, accepted |-> r.accepted,
                       updates |-> r.updates, dir |-> r.dir, out |-> r.out]
           /\ hist' = [pushTime |-> IF r.out # <<>> THEN clock
                                    ELSE hist.pushTime]
    /\ UNCHANGED <<low, clock, mainPc, lockHolder, isrBlocked, fatal, subscribed,
                   queue, received>>

RecvOnce ==
    /\ ~Halted
    /\ isrBlocked = "none"
    /\ mainPc = "loop"
    /\ received = <<>>
    /\ chan # <<>>
    /\ received' = Append(received, Head(chan))
    /\ chan' = Tail(chan)
    /\ UNCHANGED <<low, clock, mainPc, lockHolder, isrBlocked, fatal, subscribed,
                   queue, running, state, button_pressed, prev_time, sent,
                   sampled, last,
                   hist>>

RecvNewest ==
    /\ ~Halted
    /\ isrBlocked = "none"
    /\ mainPc = "loop"
    /\ chan # <<>>
    /\ received' = Append(received, chan[Len(chan)])
    /\ chan' = SubSeq(chan, 1, Len(chan) - 1)
    /\ UNCHANGED <<low, clock, mainPc, lockHolder, isrBlocked, fatal, subscribed,
                   queue, running, state, button_pressed, prev_time, sent,
                   sampled, last,
                   hist>>

\* main: the consumer loop, rx.recv()
Recv ==
    /\ ~Halted
    /\ isrBlocked = "none"
    /\ mainPc = "loop"
    /\ chan # <<>>
    /\ received' = Append(received, Head(chan))
    /\ chan' = Tail(chan)
    /\ UNCHANGED <<low, clock, mainPc, lockHolder, isrBlocked, fatal, subscribed,
                   queue, running, state, button_pressed, prev_time, sent,
                   sampled, last,
                   hist>>

Next ==
    \/ Tick
    \/ \E p \in PinId : handle_interrupt(p)
    \/ MainLock
    \/ MainSubscribe
    \/ EventLoopTake
    \/ EventLoopRun
    \/ Recv

Spec == Init /\ [][Next]_vars

\* ---- the program from the moment main enters the consumer loop, followed
\* over a longer time, with edges on the button pin only (the phase pins
\* keep their levels)
LoopPins == {"Button"}

LoopInit ==
    /\ low \in [PinId -> BOOLEAN]
    /\ clock = 0
    /\ mainPc = "loop"
    /\ lockHolder = "free"
    /\ isrBlocked = "none"
    /\ fatal = FALSE
    /\ subscribed = TRUE
    /\ queue = <<>>
    /\ running = <<>>
    /\ state = 0
    /\ button_pressed = FALSE
    /\ prev_time = 0
    /\ chan = <<>>
    /\ sent = <<>>
    /\ received = <<>>
    /\ sampled = "none"
    /\ last = NoNotification
    /\ hist = NoHistory

TickLong ==
    /\ ~Halted
    /\ \E d \in TickSteps :
        /\ clock + d <= MaxTimeLong
        /\ clock' = clock + d
    /\ UNCHANGED <<low, mainPc, lockHolder, isrBlocked, fatal, subscribed, queue,
                   running, state, button_pressed, prev_time, chan, sent,
                   received, sampled, last, hist>>

LoopNext ==
    \/ TickLong
    \/ \E p \in LoopPins : handle_interrupt(p)
    \/ EventLoopTake
    \/ EventLoopRun
    \/ Recv

LoopSpec == LoopInit /\ [][LoopNext]_vars

\* the consumer loop is a thread of its own and keeps being scheduled
LiveSpec == LoopSpec /\ WF_vars(Recv)

\* ------------------------------------------------------------------------
\* Properties
\* ------------------------------------------------------------------------

\* a step in which the closure runs on the message at the head of running
RunStep == running # <<>> /\ running' = Tail(running)

\* the gate's verdict on the notification about to be processed
WithinWindow == clock - prev_time < DebounceMs

ExpectedButton(before, level) ==
    IF before = level THEN <<>>
    ELSE IF level THEN <<"ButtonPressed">> ELSE <<"ButtonReleased">>

ExpectedTurn(d) ==
    CASE d = "Clockwise" -> <<"TurnedClockwise">>
      [] d = "CounterClockwise" -> <<"TurnedCounterClockwise">>
      [] OTHER -> <<>>

\* position of a level pair <<a, b>> on the quadrature cycle 00 -> 01 -> 11 -> 10
CyclePos(p) ==
    CASE p = <<FALSE, FALSE>> -> 0
      [] p = <<FALSE, TRUE>> -> 1
      [] p = <<TRUE, TRUE>> -> 2
      [] p = <<TRUE, FALSE>> -> 3

GrayCode(p, q) ==
    IF CyclePos(q) = (CyclePos(p) + 1) % 4 THEN "Clockwise"
    ELSE IF CyclePos(p) = (CyclePos(q) + 1) % 4 THEN "CounterClockwise"
    ELSE "None"

PairCode(p) == (IF p[1] THEN 1 ELSE 0) + (IF p[2] THEN 2 ELSE 0)

\* C1 (as stated): a Button notification is never gated; processed while
\* ButtonState is released and the pin is asserted, it pushes exactly one
\* ButtonPressed, whatever the time since the last accepted notification.
C1_ButtonNeverGated ==
    [][RunStep /\ Head(running) = "Button" /\ ~button_pressed /\ low["Button"]
         => sent' = Append(sent, "ButtonPressed")]_vars

\* C1 (amended): a Button notification passes the same debounce gate as a
\* phase notification.  Inside the 100 ms window the button pin is not read
\* and nothing is pushed; outside it the edge detector runs and its event, if
\* any, is the only event pushed (ButtonPressed when the state was released
\* and the pin is asserted).
C1_ButtonGated ==
    [][RunStep /\ Head(running) = "Button"
         => IF WithinWindow
            THEN sent' = sent /\ last'.out = <<>>
            ELSE /\ sent' = sent \o ExpectedButton(button_pressed, low["Button"])
                 /\ last'.out = ExpectedButton(button_pressed, low["Button"])]_vars

C1_Witness ==
    /\ last.pin = "Button"
    /\ last.accepted
    /\ last.out = <<"ButtonPressed">>
    /\ button_pressed

\* C2: every processed PhaseA/PhaseB notification, accepted or suppressed,
\* makes exactly one call of enc.update().
C2_OneDecoderUpdate ==
    last.pin \in {"A", "B"} => last.updates = 1

C2_Witness ==
    /\ last.pin \in {"A", "B"}
    /\ ~last.accepted
    /\ last.updates = 1

\* C3: the gate suppresses a notification less than 100 ms after prev_time
\* and leaves prev_time alone, and otherwise accepts it and sets prev_time to
\* the time read; prev_time changes only on acceptance and never decreases.
C3_DebounceGate ==
    /\ [][RunStep
            => IF WithinWindow
               THEN ~last'.accepted /\ prev_time' = prev_time
               ELSE last'.accepted /\ prev_time' = clock]_vars
    /\ [][prev_time' # prev_time => RunStep /\ last'.accepted]_vars
    /\ [][prev_time' >= prev_time]_vars

C3_Witness ==
    /\ last.pin # "none"
    /\ ~last.accepted
    /\ prev_time >= DebounceMs
    /\ clock > prev_time

\* C4: a suppressed phase notification updates the decoder and pushes
\* nothing, whatever the decoded direction; an accepted one pushes exactly the
\* turn event of the decoded direction, nothing for None, and never a button
\* event.
C4_PhaseEvents ==
    [][RunStep /\ Head(running) \in {"A", "B"}
         => /\ last'.updates = 1
            /\ button_pressed' = button_pressed
            /\ sent' = sent \o (IF WithinWindow THEN <<>>
                                ELSE ExpectedTurn(last'.dir))
            /\ last'.out = (IF WithinWindow THEN <<>>
                            ELSE ExpectedTurn(last'.dir))]_vars

C4_Witness ==
    /\ last.pin \in {"A", "B"}
    /\ ~last.accepted
    /\ last.dir # "None"
    /\ last.out = <<>>
    /\ sent # <<>>

\* C5: at most one invocation of the closure is in progress.
C5_OneAtATime == Len(running) <= 1

C5_Witness ==
    /\ Len(running) = 1
    /\ queue # <<>>
    /\ last.pin # "none"

\* C6: handle_interrupt never waits: no interrupt handler is ever left
\* waiting for the event loop mutex.
C6_NotifyNeverBlocks == isrBlocked = "none"

\* C7: every notification posted is consumed exactly once by the closure:
\* a message leaves the queue only into a closure invocation, and a closure
\* invocation only starts on the message taken from the queue.
C7_ConsumedExactlyOnce ==
    /\ [][queue # <<>> /\ queue' = Tail(queue)
            => running' = Append(running, Head(queue))]_vars
    /\ [][Len(running') > Len(running)
            => queue # <<>> /\ queue' = Tail(queue)]_vars

\* C8: the events received are, in order, the events sent that are no longer
\* in the channel: nothing is lost, duplicated or reordered.
C8_ChannelFifo == sent = received \o chan

C8_Witness ==
    /\ Len(received) = 2
    /\ received[1] # received[2]

\* C9: enc.state holds the levels read by the most recent enc.update(),
\* suppressed or not, and each update returns the quadrature transition from
\* the levels read by the update before it to the levels it reads.
C9_DecoderTracksLevels ==
    /\ [](sampled # "none" => state = PairCode(sampled))
    /\ [][RunStep /\ last'.updates > 0 /\ sampled # "none"
            => last'.dir = GrayCode(sampled, sampled')]_vars

C9_Witness ==
    /\ last.pin \in {"A", "B"}
    /\ last.accepted
    /\ last.dir = "Clockwise"
    /\ sampled = <<TRUE, TRUE>>
    /\ Len(sent) = 2

\* C10 (as stated): after any processed Button notification, suppressed or
\* not, button_pressed is the level of the button pin at that notification.
C10_ButtonAlwaysTracked ==
    [][RunStep /\ Head(running) = "Button"
         => button_pressed' = low["Button"]]_vars

\* C10 (amended): after a Button notification that passes the debounce gate
\* button_pressed is the level read; a Button notification inside the window
\* leaves button_pressed as it was.
C10_ButtonTrackedWhenAccepted ==
    [][RunStep /\ Head(running) = "Button"
         => button_pressed' = (IF WithinWindow THEN button_pressed
                               ELSE low["Button"])]_vars

C10_Witness ==
    /\ last.pin = "Button"
    /\ ~last.accepted
    /\ queue = <<>>
    /\ running = <<>>
    /\ button_pressed # low["Button"]

\* C11: the Button arm compares the level read with button_pressed: an equal
\* level emits nothing and leaves button_pressed alone; a different level is
\* stored and emits exactly one event, ButtonPressed for asserted (low) and
\* ButtonReleased for released.
C11_ButtonEdgeDetector ==
    [][RunStep /\ Head(running) = "Button" /\ ~WithinWindow
         => IF low["Button"] = button_pressed
            THEN button_pressed' = button_pressed /\ last'.out = <<>>
            ELSE /\ button_pressed' = low["Button"]
                 /\ last'.out = (IF low["Button"] THEN <<"ButtonPressed">>
                                 ELSE <<"ButtonReleased">>)
                 /\ Len(sent') = Len(sent) + 1]_vars

C11_Witness ==
    /\ last.pin = "Button"
    /\ last.accepted
    /\ last.out = <<"ButtonReleased">>
    /\ ~button_pressed
    /\ sent = <<"ButtonPressed", "ButtonReleased">>

\* the pair <<a, b>> held in an encoder state
StatePair(st) == <<st % 2 = 1, st \div 2 = 1>>

\* C12: every enc.update(), on the suppressed path as on the accepted one,
\* returns the quadrature transition from the pair held in enc.state to the
\* pair it reads (None for the same pair and for a double step) and stores
\* the pair it reads.
C12_QuadratureDecoder ==
    [][RunStep /\ last'.updates > 0
         => /\ last'.dir = GrayCode(StatePair(state), <<low["A"], low["B"]>>)
            /\ state' = PairCode(<<low["A"], low["B"]>>)
            /\ (StatePair(state) = <<low["A"], low["B"]>> => last'.dir = "None")
            /\ (StatePair(state) = <<~low["A"], ~low["B"]>> => last'.dir = "None")]_vars

C12_Witness ==
    /\ last.pin \in {"A", "B"}
    /\ ~last.accepted
    /\ last.dir = "CounterClockwise"
    /\ sampled = <<TRUE, FALSE>>
    /\ state = 1

\* C13: the event loop is first in, first out, so the notifications of one
\* pin are processed in the order its handler posted them: a post puts the
\* message behind every message already queued, and the message the closure
\* is started on is the oldest one queued, the others keeping their order.
C13_PerPinFifo ==
    /\ [][Len(queue') > Len(queue)
            => \E p \in PinId : queue' = Append(queue, p)]_vars
    /\ [][Len(queue') < Len(queue)
            => /\ queue' = Tail(queue)
               /\ subscribed => running' = Append(running, Head(queue))]_vars
    /\ [][RunStep => last'.pin = Head(running)]_vars

C13_Witness ==
    /\ running = <<"A">>
    /\ queue = <<"B", "A">>
    /\ last.pin = "A"

\* C14: enc.state, button_pressed and prev_time change only in a step of the
\* closure; a step of handle_interrupt (a pin level changes) and a step of
\* the consumer (an event is received) leave them, and the record of decoder
\* and gate activity, unchanged.
C14_OnlyProcessingMutates ==
    /\ [][(state' # state \/ button_pressed' # button_pressed
            \/ prev_time' # prev_time \/ sampled' # sampled \/ last' # last)
            => RunStep]_vars
    /\ [][(low' # low \/ received' # received)
            => UNCHANGED <<state, button_pressed, prev_time, sampled, last>>]_vars

C14_Witness ==
    /\ received # <<>>
    /\ queue # <<>>
    /\ state = 3
    /\ button_pressed
    /\ prev_time > 0

\* the state main has built before anything was posted or processed
AtStartup ==
    /\ mainPc = "start"
    /\ clock = 0
    /\ queue = <<>>
    /\ running = <<>>
    /\ ~fatal
    /\ isrBlocked = "none"
    /\ sampled = "none"
    /\ last = NoNotification

\* C15 (as stated): at start-up button_pressed is released, prev_time is the
\* start-up time, the channel is empty and enc.state holds the phase levels
\* at start-up, whatever they are.
C15_InitialStateSampled ==
    AtStartup
        => /\ ~button_pressed
           /\ prev_time = clock
           /\ chan = <<>>
           /\ state = PairCode(<<low["A"], low["B"]>>)

\* C15 (amended): at start-up button_pressed is released, prev_time is the
\* start-up time, the channel is empty and enc.state is 0, the pair of two
\* high pins, whatever the phase levels are: Rotary::new reads no pin.
C15_InitialState ==
    AtStartup
        => /\ ~button_pressed
           /\ prev_time = clock
           /\ chan = <<>>
           /\ sent = <<>>
           /\ state = 0

C15_Witness ==
    /\ AtStartup
    /\ low["A"]
    /\ ~low["B"]
    /\ state = 0

C18_SuppressedFrame ==
    /\ [][RunStep /\ WithinWindow
            => /\ last'.updates = 1
               /\ ~last'.accepted
               /\ state' = PairCode(<<low["A"], low["B"]>>)
               /\ UNCHANGED <<button_pressed, prev_time, chan, sent>>]_vars
    /\ [](WithinWindow
            => \A pin \in PinId, c \in BOOLEAN :
                 Closure(pin, clock, prev_time, state, button_pressed,
                         [low EXCEPT !["Button"] = c])
                 = Closure(pin, clock, prev_time, state, button_pressed, low))

C18_Witness ==
    /\ last.pin = "Button"
    /\ ~last.accepted
    /\ last.updates = 1
    /\ last.dir # "None"
    /\ button_pressed

\* C19: every notification outside the window sets prev_time to the time
\* read, whatever its pin and whether or not it sends an event; a
\* notification sends at most one event; and two events are sent by
\* notifications whose times are at least 100 ms apart.
C19_EventsSpaced ==
    [][RunStep
         => /\ ~WithinWindow => prev_time' = clock
            /\ Len(sent') <= Len(sent) + 1
            /\ (sent' # sent /\ hist.pushTime # -1)
                 => clock - hist.pushTime >= DebounceMs
            /\ sent' # sent => hist'.pushTime = clock /\ prev_time' = clock]_vars

C19_Witness ==
    /\ Len(sent) = 2
    /\ sent[1] = "ButtonPressed"
    /\ sent[2] = "TurnedClockwise"
    /\ hist.pushTime = prev_time
    /\ last.accepted

ButtonEvents ==
    SelectSeq(sent, LAMBDA e : e \in {"ButtonPressed", "ButtonReleased"})

\* C20: the button events sent are ButtonPressed, ButtonReleased,
\* ButtonPressed, ... in strict alternation starting with ButtonPressed, and
\* button_pressed is true exactly when the last of them is ButtonPressed.
C20_ButtonEventsAlternate ==
    /\ \A i \in 1..Len(ButtonEvents) :
         ButtonEvents[i] = (IF i % 2 = 1 THEN "ButtonPressed" ELSE "ButtonReleased")
    /\ button_pressed
         <=> (ButtonEvents # <<>> /\ ButtonEvents[Len(ButtonEvents)] = "ButtonPressed")

C20_Witness ==
    /\ ButtonEvents = <<"ButtonPressed", "ButtonReleased", "ButtonPressed">>
    /\ button_pressed
    /\ last.pin = "Button"
    /\ ~last.accepted

====
